---- MODULE Spec2Model ----
(***************************************************************************)
(* Model of simple_json_parser (src/src/main.rs): the tokenizer Lexer::lex *)
(* run one outer-loop iteration per step, followed by the recursive        *)
(* descent parser (parse_value, parse_array, parse_dict, parse_dict_entry) *)
(* and the top-level trailing-content check of parse.                      *)
(*                                                                         *)
(* A byte is a one-character string; the byte 0xFF (never part of valid    *)
(* UTF-8) is written "0xFF".  A buffer is a sequence of bytes.  Indices    *)
(* into a buffer are 0-based as in the source: At(buf, k) is buf[k].       *)
(***************************************************************************)
EXTENDS Integers, Sequences, FiniteSets, TLC

VARIABLES json, i, tokens, pc, result

vars == <<json, i, tokens, pc, result>>

---------------------------------------------------------------------------
(* Byte-level helpers                                                      *)

At(buf, k) == buf[k + 1]

\* &buf[a..b]
Slice(buf, a, b) == SubSeq(buf, a + 1, b)

quote_sym == "\""

minus_sym == "-"

whitespace == {" ", "\t", "\r", "\n"}

single_char_symbols ==
    [b \in {"{", "}", "[", "]", ",", ":"} |->
        CASE b = "{" -> [k |-> "LeftBrace"]
          [] b = "}" -> [k |-> "RightBrace"]
          [] b = "[" -> [k |-> "LeftBracket"]
          [] b = "]" -> [k |-> "RightBracket"]
          [] b = "," -> [k |-> "Comma"]
          [] b = ":" -> [k |-> "Colon"]]

multi_char_symbols ==
    << [lexeme |-> <<"n", "u", "l", "l">>, t |-> [k |-> "NullVal"]],
       [lexeme |-> <<"t", "r", "u", "e">>, t |-> [k |-> "BoolVal", b |-> TRUE]],
       [lexeme |-> <<"f", "a", "l", "s">>, t |-> [k |-> "BoolVal", b |-> FALSE]] >>

DigitVal ==
    [d \in {"0", "1", "2", "3", "4", "5", "6", "7", "8", "9"} |->
        CASE d = "0" -> 0 [] d = "1" -> 1 [] d = "2" -> 2 [] d = "3" -> 3
          [] d = "4" -> 4 [] d = "5" -> 5 [] d = "6" -> 6 [] d = "7" -> 7
          [] d = "8" -> 8 [] d = "9" -> 9]

Digits == DOMAIN DigitVal

num_chars == Digits \cup {".", "e"}

\* c == minus_sym || (c >= 48 && c <= 57)
IsNumStart(c) == c = minus_sym \/ c \in Digits

Min(a, b) == IF a < b THEN a ELSE b

\* Index of the first element of s at 1-based position >= from satisfying
\* the test, or Len(s) + 1 when there is none.
RECURSIVE FirstIn(_, _, _)
FirstIn(s, from, set) ==
    IF from > Len(s) THEN Len(s) + 1
    ELSE IF s[from] \in set THEN from
    ELSE FirstIn(s, from + 1, set)

RECURSIVE FirstNotIn(_, _, _)
FirstNotIn(s, from, set) ==
    IF from > Len(s) THEN Len(s) + 1
    ELSE IF s[from] \notin set THEN from
    ELSE FirstNotIn(s, from + 1, set)

---------------------------------------------------------------------------
(* str::parse::<f64>() on the bytes the lexer can hand it (a leading '-'   *)
(* or digit followed by bytes of num_chars).  Accepted: an optional sign,  *)
(* digits, an optional point and digits, an optional e and one or more     *)
(* digits, with at least one mantissa digit; everything else is a          *)
(* ParseFloatError.  A finite value is the exact decimal                   *)
(* neg * mant * 10^exp with mant free of trailing zeros; a magnitude       *)
(* beyond the f64 range decodes to infinity.  The literals of this model   *)
(* are shorter than 15 significant digits, where distinct decimals are     *)
(* distinct f64 values.                                                    *)

AllDigits(s) == \A k \in 1..Len(s) : s[k] \in Digits

RECURSIVE DecVal(_)
DecVal(s) ==
    IF s = <<>> THEN 0 ELSE 10 * DecVal(SubSeq(s, 1, Len(s) - 1)) + DigitVal[s[Len(s)]]

RECURSIVE StripZeros(_, _)
StripZeros(m, e) ==
    IF m # 0 /\ m % 10 = 0 THEN StripZeros(m \div 10, e + 1) ELSE [mant |-> m, exp |-> e]

RECURSIVE NumDigits(_)
NumDigits(m) == IF m < 10 THEN 1 ELSE 1 + NumDigits(m \div 10)

\* The first nine significant digits of m (m < 10^9), to compare a magnitude
\* with f64::MAX = 1.79769313...e308.
RECURSIVE Lead9(_)
Lead9(m) == IF m >= 100000000 THEN m ELSE Lead9(m * 10)

ParseF64(s) ==
    LET neg   == s # <<>> /\ s[1] = "-"
        body  == IF neg THEN Tail(s) ELSE s
        epos  == FirstIn(body, 1, {"e"})
        hasE  == epos <= Len(body)
        mpart == SubSeq(body, 1, epos - 1)
        xpart == SubSeq(body, epos + 1, Len(body))
        dpos  == FirstIn(mpart, 1, {"."})
        ip    == SubSeq(mpart, 1, dpos - 1)
        fp    == SubSeq(mpart, dpos + 1, Len(mpart))
        wellformed ==
            /\ AllDigits(ip) /\ AllDigits(fp)
            /\ Len(ip) + Len(fp) >= 1
            /\ hasE => (xpart # <<>> /\ AllDigits(xpart))
        m     == DecVal(ip \o fp)
        x     == IF Len(xpart) > 4 THEN 65536 ELSE DecVal(xpart)
        n     == StripZeros(m, x - Len(fp))
    IN  IF ~wellformed THEN [ok |-> FALSE]
        ELSE IF m = 0 THEN [ok |-> TRUE, v |-> [neg |-> neg, mant |-> 0, exp |-> 0]]
        ELSE IF NumDigits(n.mant) + n.exp > 309
                \/ (NumDigits(n.mant) + n.exp = 309 /\ Lead9(n.mant) > 179769313)
             THEN [ok |-> TRUE, v |-> [neg |-> neg, inf |-> TRUE]]
        ELSE [ok |-> TRUE, v |-> [neg |-> neg, mant |-> n.mant, exp |-> n.exp]]

\* String::from_utf8 on a byte range: the buffers of this model hold ASCII
\* bytes and the byte 0xFF, which no valid UTF-8 text contains.
IsUtf8(s) == \A k \in 1..Len(s) : s[k] # "0xFF"

---------------------------------------------------------------------------
(* Token and Result constructors                                           *)

StringVal(a, b) == [k |-> "StringVal", i |-> a, j |-> b]

NumVal(n) == [k |-> "NumVal", n |-> n]

Ok(v, rest) == [kind |-> "ok", val |-> v, rest |-> rest]

Err(msg) == [kind |-> "err", err |-> msg]

\* todo!("parse gen"): the thread panics, nothing is returned to the caller.
Panic == [kind |-> "panic", msg |-> "not yet implemented: parse gen"]

---------------------------------------------------------------------------
(* Lexer::lex, one iteration of the 'outer loop per action.                *)

buf_len == Len(json)

c == At(json, i)

LexIter == pc = "lex" /\ i < buf_len

\* if i >= buf_len { break; }  ...  return Ok(tokens);
LexBreak ==
    /\ pc = "lex"
    /\ i >= buf_len
    /\ pc' = "parse"
    /\ UNCHANGED <<json, i, tokens, result>>

\* ignore whitespace
LexWhitespace ==
    /\ LexIter
    /\ c \in whitespace
    /\ i' = i + 1
    /\ UNCHANGED <<json, tokens, pc, result>>

\* handle single len symbols
LexSingleChar ==
    /\ LexIter
    /\ c \notin whitespace
    /\ c \in DOMAIN single_char_symbols
    /\ tokens' = Append(tokens, single_char_symbols[c])
    /\ i' = i + 1
    /\ UNCHANGED <<json, pc, result>>

IsStringStart ==
    /\ LexIter
    /\ c \notin whitespace
    /\ c \notin DOMAIN single_char_symbols
    /\ c = quote_sym

\* The inner scan: the first j >= i + 1 with buf[j] == quote_sym, or buf_len.
ScanQuote(buf, from) == FirstIn(buf, from + 1, {quote_sym}) - 1

\* LexString with the token range starting at the opening quote.
LexStringFromQuote ==
    /\ IsStringStart
    /\ LET j == ScanQuote(json, i + 1)
       IN  IF j >= buf_len
           THEN /\ result' = Err("Missing end quote for string")
                /\ pc' = "done"
                /\ UNCHANGED <<i, tokens>>
           ELSE /\ tokens' = Append(tokens, StringVal(i, j))
                /\ i' = j + 1
                /\ UNCHANGED <<pc, result>>
    /\ UNCHANGED json

\* handle strings
LexString ==
    /\ IsStringStart
    /\ LET j == ScanQuote(json, i + 1)
       IN  IF j >= buf_len
           THEN /\ result' = Err("Missing end quote for string")
                /\ pc' = "done"
                /\ UNCHANGED <<i, tokens>>
           ELSE /\ tokens' = Append(tokens, StringVal(i + 1, j))
                /\ i' = j + 1
                /\ UNCHANGED <<pc, result>>
    /\ UNCHANGED json

NotSymbolOrString ==
    /\ LexIter
    /\ c \notin whitespace
    /\ c \notin DOMAIN single_char_symbols
    /\ c # quote_sym

end == Min(i + 4, buf_len)

\* The indices j of multi_char_symbols whose lexeme equals &buf[i..end].
MultiCharMatch == {j \in 1..Len(multi_char_symbols) :
                    Slice(json, i, end) = multi_char_symbols[j].lexeme}

\* handle null and bools
LexMultiChar ==
    /\ NotSymbolOrString
    /\ MultiCharMatch # {}
    /\ LET t == multi_char_symbols[CHOOSE j \in MultiCharMatch : TRUE].t
       IN  IF t = [k |-> "BoolVal", b |-> FALSE]
           THEN IF end < buf_len /\ At(json, end) = "e"
                THEN /\ i' = end + 1
                     /\ tokens' = Append(tokens, t)
                     /\ UNCHANGED <<pc, result>>
                ELSE /\ result' = Err("Incomplete false value")
                     /\ pc' = "done"
                     /\ UNCHANGED <<i, tokens>>
           ELSE /\ i' = end
                /\ tokens' = Append(tokens, t)
                /\ UNCHANGED <<pc, result>>
    /\ UNCHANGED json

\* The while loop of the number branch: the first j >= i + 1 with buf[j]
\* outside num_chars, or buf_len when the loop runs off the buffer.
ScanNum(buf, from) == FirstNotIn(buf, from + 1, num_chars) - 1

\* Whether the number branch returns from inside its while loop.
NumberEnds ==
    /\ IsNumStart(c)
    /\ ScanNum(json, i + 1) < buf_len

\* handle numbers
LexNumber ==
    /\ NotSymbolOrString
    /\ MultiCharMatch = {}
    /\ NumberEnds
    /\ LET j   == ScanNum(json, i + 1)
           num == ParseF64(Slice(json, i, j))
       IN  IF num.ok
           THEN /\ tokens' = Append(tokens, NumVal(num.v))
                /\ i' = j
                /\ UNCHANGED <<pc, result>>
           ELSE /\ result' = Err("invalid float literal")
                /\ pc' = "done"
                /\ UNCHANGED <<i, tokens>>
    /\ UNCHANGED json

\* error: eyre::bail!(format!("Unexpected value: '{}'", c as char))
LexUnexpected ==
    /\ NotSymbolOrString
    /\ MultiCharMatch = {}
    /\ ~NumberEnds
    /\ result' = [kind |-> "err", err |-> "Unexpected value", c |-> c]
    /\ pc' = "done"
    /\ UNCHANGED <<json, i, tokens>>

---------------------------------------------------------------------------
(* JSONValue                                                               *)

Null == [t |-> "Null"]

Bool(b) == [t |-> "Bool", b |-> b]

Str(s) == [t |-> "Str", s |-> s]

Num(n) == [t |-> "Num", n |-> n]

Array(entries) == [t |-> "Array", a |-> entries]

\* A HashMap<String, JSONValue> is a function from its keys to their values.
Dict(entries) == [t |-> "Dict", d |-> entries]

HashMapNew == [key \in {} |-> Null]

\* HashMap::insert: the value replaces the one an equal key already holds.
HashMapInsert(entries, key, val) ==
    [x \in (DOMAIN entries) \cup {key} |-> IF x = key THEN val ELSE entries[x]]

---------------------------------------------------------------------------
(* The recursive descent parser.  `?` returns an Err result to the caller; *)
(* a panic unwinds through every caller the same way.                      *)

RECURSIVE parse_value(_, _)
RECURSIVE parse_array_loop(_, _, _)
RECURSIVE parse_dict_loop(_, _, _)
RECURSIVE parse_array_loop_prepend(_, _, _)

parse_array(toks, buf) ==
    IF toks = <<>> THEN Err("Expected value")
    ELSE IF toks[1].k = "RightBracket" THEN Ok(Array(<<>>), Tail(toks))
    ELSE parse_array_loop(<<>>, toks, buf)

\* parse_array_loop with each value put in front of the earlier ones.
parse_array_loop_prepend(entries, toks, buf) ==
    LET r == parse_value(toks, buf)
    IN  IF r.kind # "ok" THEN r
        ELSE LET pushed == <<r.val>> \o entries
                 rest   == r.rest
             IN  IF rest = <<>> THEN Err("Expected value")
                 ELSE IF rest[1].k = "RightBracket" THEN Ok(Array(pushed), Tail(rest))
                 ELSE IF rest[1].k = "Comma"
                      THEN parse_array_loop_prepend(pushed, Tail(rest), buf)
                 ELSE Err("Unexpected value for array")

\* The loop of parse_array, entered with the entries pushed so far.
parse_array_loop(entries, toks, buf) ==
    LET r == parse_value(toks, buf)
    IN  IF r.kind # "ok" THEN r
        ELSE LET pushed == Append(entries, r.val)
                 rest   == r.rest
             IN  IF rest = <<>> THEN Err("Expected value")
                 ELSE IF rest[1].k = "RightBracket" THEN Ok(Array(pushed), Tail(rest))
                 ELSE IF rest[1].k = "Comma" THEN parse_array_loop(pushed, Tail(rest), buf)
                 ELSE Err("Unexpected value for array")

\* parse_dict_entry with the colon checked before the key.
parse_dict_entry_colon_first(toks, buf) ==
    IF Len(toks) < 3 THEN Err("Object entry incomplete")
    ELSE IF toks[2].k # "Colon" THEN Err("Expected colon")
    ELSE IF toks[1].k # "StringVal" THEN Err("Expected string for key")
    ELSE IF ~IsUtf8(Slice(buf, toks[1].i, toks[1].j)) THEN Err("invalid utf-8")
    ELSE LET r == parse_value(SubSeq(toks, 3, Len(toks)), buf)
         IN  IF r.kind # "ok" THEN r
             ELSE Ok(<<Slice(buf, toks[1].i, toks[1].j), r.val>>, r.rest)

\* On success val is the pair <<key, val>>.
parse_dict_entry(toks, buf) ==
    IF Len(toks) < 3 THEN Err("Object entry incomplete")
    ELSE IF toks[1].k # "StringVal" THEN Err("Expected string for key")
    ELSE IF ~IsUtf8(Slice(buf, toks[1].i, toks[1].j)) THEN Err("invalid utf-8")
    ELSE IF toks[2].k # "Colon" THEN Err("Expected colon")
    ELSE LET r == parse_value(SubSeq(toks, 3, Len(toks)), buf)
         IN  IF r.kind # "ok" THEN r
             ELSE Ok(<<Slice(buf, toks[1].i, toks[1].j), r.val>>, r.rest)

parse_dict(toks, buf) ==
    IF toks = <<>> THEN Err("Expected value")
    ELSE IF toks[1].k = "RightBracket" THEN Ok(Dict(HashMapNew), Tail(toks))
    ELSE parse_dict_loop(HashMapNew, toks, buf)

\* The loop of parse_dict, entered with the entries inserted so far.
parse_dict_loop(entries, toks, buf) ==
    LET r == parse_dict_entry(toks, buf)
    IN  IF r.kind # "ok" THEN r
        ELSE LET inserted == HashMapInsert(entries, r.val[1], r.val[2])
                 rest     == r.rest
             IN  IF rest = <<>> THEN Err("Expected value")
                 ELSE IF rest[1].k = "RightBrace" THEN Ok(Dict(inserted), Tail(rest))
                 ELSE IF rest[1].k = "Comma" THEN parse_dict_loop(inserted, Tail(rest), buf)
                 ELSE Err("Unexpected value for dict")

parse_value(toks, buf) ==
    IF toks = <<>> THEN Err("Expected value")
    ELSE LET t    == toks[1]
             rest == Tail(toks)
         IN  CASE t.k = "BoolVal" -> Ok(Bool(t.b), rest)
               [] t.k = "NullVal" -> Ok(Null, rest)
               [] t.k = "NumVal" -> Ok(Num(t.n), rest)
               [] t.k = "StringVal" ->
                    IF IsUtf8(Slice(buf, t.i, t.j))
                    THEN Ok(Str(Slice(buf, t.i, t.j)), rest)
                    ELSE Err("invalid utf-8")
               [] t.k = "LeftBrace" -> parse_dict(rest, buf)
               [] t.k = "LeftBracket" -> parse_array(rest, buf)
               [] OTHER -> Panic

\* parse, after the lexer has returned Ok(tokens).
parse(toks, buf) ==
    LET r == parse_value(toks, buf)
    IN  IF r.kind # "ok" THEN r
        ELSE IF Len(r.rest) > 0 THEN Err("Invalid JSON contains extra content")
        ELSE [kind |-> "ok", val |-> r.val]

ParseTokens ==
    /\ pc = "parse"
    /\ result' = parse(tokens, json)
    /\ pc' = "done"
    /\ UNCHANGED <<json, i, tokens>>

---------------------------------------------------------------------------
(* The buffers parse is called with.                                       *)

MaxLen == 4

MaxTok == 4

MaxElems == 3

MaxEntries == 3

RECURSIVE Concat(_)
Concat(ss) == IF ss = <<>> THEN <<>> ELSE Head(ss) \o Concat(Tail(ss))

SeqsUpTo(S, n) == UNION {[1..m -> S] : m \in 0..n}

\* Every buffer of at most MaxLen bytes over the bytes that drive the
\* string and number branches of the lexer.
ByteAlphabet == {"\"", "a", "1", "-", ".", "e", " ", ","}

ByteBufs == SeqsUpTo(ByteAlphabet, MaxLen)

\* Every buffer made of at most MaxTok lexemes.
Lexemes == { <<"{">>, <<"}">>, <<"[">>, <<"]">>, <<",">>, <<":">>,
             <<"\"", "a", "\"">>, <<"1">> }

LexemeBufs == {Concat(ls) : ls \in SeqsUpTo(Lexemes, MaxTok)}

\* s[1] sep s[2] sep ... s[n]
RECURSIVE Join(_, _)
Join(ss, sep) ==
    IF ss = <<>> THEN <<>>
    ELSE IF Len(ss) = 1 THEN ss[1]
    ELSE ss[1] \o sep \o Join(Tail(ss), sep)

\* Well-formed JSON texts used as array elements and entry values.
ElemTexts == { <<"1">>, <<"2">>, <<"\"", "a", "\"">>, <<"n", "u", "l", "l">>,
               <<"[", "]">>, <<"{", "}">>, <<"[", "1", ",", "2", "]">>,
               <<"{", "\"", "a", "\"", ":", "1", "}">> }

ElemLists == SeqsUpTo(ElemTexts, MaxElems) \ {<<>>}

\* [e1,...,en] and the same text without its closing bracket.
ArrayBufs == {<<"[">> \o Join(es, <<",">>) \o <<"]">> : es \in ElemLists}

UnclosedArrayBufs == {<<"[">> \o Join(es, <<",">>) : es \in ElemLists}

\* An array nested inside an object or another array.
NestedArrayBufs ==
    {<<"{", "\"", "a", "\"", ":">> \o a \o <<"}">> : a \in ArrayBufs}
    \cup {<<"[">> \o a \o <<"]">> : a \in ArrayBufs}

KeyNames == { <<"a">>, <<"b">> }

ValueTexts == { <<"1">>, <<"2">>, <<"{", "}">>, <<"[", "1", "]">> }

\* An entry is a pair <<key, value text>>; its text is "key":value.
EntryText(e) == <<"\"">> \o e[1] \o <<"\"", ":">> \o e[2]

EntryLists == SeqsUpTo(KeyNames \X ValueTexts, MaxEntries) \ {<<>>}

\* {k1:v1,...,kn:vn} with 1 <= n <= MaxEntries, keys possibly repeated.
ObjectText(es) ==
    <<"{">> \o Join([n \in 1..Len(es) |-> EntryText(es[n])], <<",">>) \o <<"}">>

ObjectBufs == {ObjectText(es) : es \in EntryLists}

\* An opening brace, three lexemes in the places of key, colon and value,
\* and possibly a closing brace.
EntryBufs ==
    {<<"{">> \o Concat(ls) \o cl : ls \in [1..3 -> Lexemes], cl \in {<<>>, <<"}">>}}

RootTexts == { <<"1">>, <<"n", "u", "l", "l">>, <<"\"", "a", "\"">>, <<"[", "]">>,
               <<"[", "1", "]">>, <<"{", "\"", "a", "\"", ":", "1", "}">> }

ExtraTexts == { <<"2">>, <<"n", "u", "l", "l">>, <<"]">>, <<",">>, <<"\"", "a", "\"">>,
                <<"[", "]">>, <<"1", " ">> }

\* One complete root value, whitespace, and at least one further token.
TrailingBufs == {r \o <<" ">> \o x : r \in RootTexts, x \in ExtraTexts}

\* The inputs of the examples and tests, and one input per lexer branch.
Samples == {
    <<"{", "\"", "f", "o", "o", "\"", ":", "[", "1", ",", "2", ",", "3", "]", "}">>,
    <<"{", "\"", "a", "\"", ":", "1", ",", "\"", "a", "\"", ":", "2", "}">>,
    <<"{", "\"", "a", "\"", ":", "}">>,
    <<"[", "1", ",", "2">>,
    <<"1", " ", "2">>,
    <<"\"", "a", "b", "c">>,
    <<"t", "r", "u", "e">>,
    <<"f", "a", "l", "s", "e">>,
    <<"f", "a", "l", "s">>,
    <<"f", "a", "l", "s", "y">>,
    <<"[", "t", "r", "u", "e", ",", "\t", "f", "a", "l", "s", "e", ",", "\n", "n", "u", "l", "l", "]">>,
    <<"-", "1", ".", "5", "e", "2", " ">>,
    <<"4", "2">>,
    <<"x">>,
    <<"\"", "0xFF", "\"">>,
    <<"{", "\"", "0xFF", "\"", ":", "1", "}">>,
    <<"0xFF">> }

Inputs ==
    ByteBufs \cup LexemeBufs \cup ArrayBufs \cup UnclosedArrayBufs \cup NestedArrayBufs
    \cup ObjectBufs \cup EntryBufs \cup TrailingBufs \cup Samples

---------------------------------------------------------------------------

Init ==
    /\ json \in Inputs
    /\ i = 0
    /\ tokens = <<>>
    /\ pc = "lex"
    /\ result = [kind |-> "none"]

Next ==
    \/ LexBreak
    \/ LexWhitespace
    \/ LexSingleChar
    \/ LexString
    \/ LexMultiChar
    \/ LexNumber
    \/ LexUnexpected
    \/ ParseTokens

Spec == Init /\ [][Next]_vars

---------------------------------------------------------------------------
(* The error kinds of the specification's taxonomy, by the message the     *)
(* code reports them with.                                                 *)

TrailingContent == "Invalid JSON contains extra content"

ExpectedValue == "Expected value"

ExpectedStringKey == "Expected string for key"

ExpectedColon == "Expected colon"

UnterminatedString == "Missing end quote for string"

UnexpectedByte == "Unexpected value"

EntryIncomplete == "Object entry incomplete"

---------------------------------------------------------------------------
(* Vocabulary of the properties                                            *)

Done == pc = "done"

\* The lexer returned its tokens and the parser has run on them.
Parsed == pc = "done" /\ i >= buf_len

\* The tokens from position p on.
Suffix(p) == SubSeq(tokens, p, Len(tokens))

\* The number an integer literal n (0 < n, n % 10 # 0) decodes to.
IntNum(n) == Num([neg |-> FALSE, mant |-> n, exp |-> 0])

Returned(v) == [kind |-> "ok", val |-> v]

OpenKinds == {"LeftBrace", "LeftBracket"}

CloseKinds == {"RightBrace", "RightBracket"}

FooSample == <<"{", "\"", "f", "o", "o", "\"", ":", "[", "1", ",", "2", ",", "3", "]", "}">>

---------------------------------------------------------------------------
\* C1: parse of `[]` returns an Array with zero elements and parse of `{}`
\* returns an Object with zero entries; neither returns an error.
C1_EmptyContainersParse ==
    Done =>
        /\ json = <<"[", "]">> => result = Returned(Array(<<>>))
        /\ json = <<"{", "}">> => result = Returned(Dict(HashMapNew))

\* C2: every buffer made of one complete root value followed by at least one
\* further token fails with TrailingContent and with no other error.
C2_TrailingContentRejected ==
    (Done /\ json \in TrailingBufs) => result = Err(TrailingContent)

\* C3: parse never panics: it always finishes with a value or a returned
\* error; parse_value entered with no token, or with a leading `}`, `]`,
\* `,` or `:`, returns the expected-value error, and parse of `{"a":}`
\* returns ExpectedValue.
C3_BadValuePositionIsReturnedError ==
    Done =>
        /\ result.kind \in {"ok", "err"}
        /\ (Parsed /\ (tokens = <<>> \/ tokens[1].k \in CloseKinds \cup {"Comma", "Colon"}))
              => result = Err(ExpectedValue)
        /\ json = <<"{", "\"", "a", "\"", ":", "}">> => result = Err(ExpectedValue)

\* C4: an array `[` e1 `,` ... `,` en with no closing bracket before the end
\* of the buffer fails with ExpectedValue.
C4_UnclosedArrayExpectedValue ==
    (Done /\ json \in UnclosedArrayBufs) => result = Err(ExpectedValue)

---------------------------------------------------------------------------
(* C5 *)

\* The token sequences between the commas of body that lie outside every
\* bracket pair.
RECURSIVE SplitTop(_, _, _, _, _)
SplitTop(body, p, depth, cur, acc) ==
    IF p > Len(body) THEN Append(acc, cur)
    ELSE IF body[p].k = "Comma" /\ depth = 0
         THEN SplitTop(body, p + 1, 0, <<>>, Append(acc, cur))
    ELSE SplitTop(body, p + 1,
                  depth + (IF body[p].k \in OpenKinds THEN 1
                           ELSE IF body[p].k \in CloseKinds THEN -1 ELSE 0),
                  Append(cur, body[p]), acc)

Elements(body) == IF body = <<>> THEN <<>> ELSE SplitTop(body, 1, 0, <<>>, <<>>)

\* The array production entered right after the `[` at position p: when it
\* returns an Array, the Array has one element per element text, the k-th
\* being the value parse_value gives for the k-th element text.
ArrayPreservedAt(p) ==
    LET r == parse_array(Suffix(p + 1), json)
    IN  r.kind = "ok" =>
          LET last  == Len(tokens) - Len(r.rest)
              elems == Elements(SubSeq(tokens, p + 1, last - 1))
          IN  /\ r.val.t = "Array"
              /\ tokens[last].k = "RightBracket"
              /\ Len(r.val.a) = Len(elems)
              /\ \A m \in 1..Len(elems) :
                    parse_value(elems[m], json) = Ok(r.val.a[m], <<>>)

---------------------------------------------------------------------------
(* C6 *)

HasDuplicateKey(es) ==
    \E m, n \in 1..Len(es) : m < n /\ es[m][1] = es[n][1]

LastEntry(es, key) ==
    es[CHOOSE n \in 1..Len(es) :
          es[n][1] = key /\ \A m \in (n + 1)..Len(es) : es[m][1] # key]

\* The value each value text of ValueTexts denotes.
ValueOf(vt) ==
    CASE vt = <<"1">> -> IntNum(1)
      [] vt = <<"2">> -> IntNum(2)
      [] vt = <<"{", "}">> -> Dict(HashMapNew)
      [] vt = <<"[", "1", "]">> -> Array(<<IntNum(1)>>)

DupEntryLists == {es \in EntryLists : HasDuplicateKey(es)}

DupObjectBufs == {ObjectText(es) : es \in DupEntryLists}

\* C6: for every well-formed object in which a key occurs in several
\* entries, parse succeeds and the Object holds one entry per distinct key,
\* each key mapped to the value of its last entry.
C6_DuplicateKeysLastWins ==
    (Done /\ json \in DupObjectBufs) =>
        \A es \in DupEntryLists :
            json = ObjectText(es) =>
                /\ result.kind = "ok"
                /\ result.val.t = "Dict"
                /\ DOMAIN result.val.d = {es[n][1] : n \in 1..Len(es)}
                /\ \A key \in DOMAIN result.val.d :
                      result.val.d[key] = ValueOf(LastEntry(es, key)[2])

---------------------------------------------------------------------------
\* C7: a numeric literal is tokenized whether it ends at a disqualifying
\* byte or at the end of the buffer: the lexer never rejects a cursor byte
\* that is `-` or a digit as unexpected, and the bare numbers `1` and `42`
\* parse to that Number.
C7_NumberTokenizedAtEndOfBuffer ==
    Done =>
        /\ (result.kind = "err" /\ result.err = UnexpectedByte)
              => ~IsNumStart(At(json, i))
        /\ json = <<"1">> => result = Returned(IntNum(1))
        /\ json = <<"4", "2">> => result = Returned(IntNum(42))

---------------------------------------------------------------------------
(* C8 *)

IsBraceOpened == Len(tokens) >= 2 /\ tokens[1].k = "LeftBrace"

\* C8 as stated: in an object whose first token after `{` is neither a
\* String nor a closing token, however many tokens follow, parse fails with
\* ExpectedStringKey; with a String there and no `:` after it, ExpectedColon.
C8_EntryErrorsByPosition ==
    (Parsed /\ IsBraceOpened) =>
        /\ tokens[2].k \notin {"StringVal", "RightBrace", "RightBracket"}
              => result = Err(ExpectedStringKey)
        /\ (tokens[2].k = "StringVal" /\ Len(tokens) >= 3 /\ tokens[3].k # "Colon")
              => result = Err(ExpectedColon)

KeyIsText(toks) == IsUtf8(Slice(json, toks[1].i, toks[1].j))

\* The entry production entered with the tokens toks.
EntryClassified(toks) ==
    LET r == parse_dict_entry(toks, json)
    IN  /\ Len(toks) < 3 => r = Err(EntryIncomplete)
        /\ (Len(toks) >= 3 /\ toks[1].k # "StringVal") => r = Err(ExpectedStringKey)
        /\ (Len(toks) >= 3 /\ toks[1].k = "StringVal" /\ KeyIsText(toks)
              /\ toks[2].k # "Colon") => r = Err(ExpectedColon)

\* C8 amended: the entry production entered with fewer than three tokens
\* fails with "Object entry incomplete"; entered with at least three, it
\* fails with ExpectedStringKey when the first is not a String, and with
\* ExpectedColon when the first is a String of valid text and the second is
\* not `:`.  An object whose first entry is so entered fails the same way.
C8_EntryErrorsByPositionAmended ==
    Done =>
        /\ \A p \in 1..(Len(tokens) + 1) : EntryClassified(Suffix(p))
        /\ (Parsed /\ IsBraceOpened /\ tokens[2].k # "RightBracket") =>
              LET toks == Suffix(2)
              IN  /\ Len(toks) < 3 => result = Err(EntryIncomplete)
                  /\ (Len(toks) >= 3 /\ toks[1].k # "StringVal")
                        => result = Err(ExpectedStringKey)
                  /\ (Len(toks) >= 3 /\ toks[1].k = "StringVal" /\ KeyIsText(toks)
                        /\ toks[2].k # "Colon") => result = Err(ExpectedColon)

C8_Witness ==
    /\ Parsed
    /\ Len(tokens) >= 4
    /\ tokens[1].k = "LeftBrace"
    /\ tokens[2].k = "NumVal"
    /\ tokens[3].k = "Colon"
    /\ result = Err(ExpectedStringKey)

---------------------------------------------------------------------------
(* C9 *)

RECURSIVE Matched(_, _, _)
Matched(toks, p, stack) ==
    IF p > Len(toks) THEN stack = <<>>
    ELSE IF toks[p].k \in OpenKinds THEN Matched(toks, p + 1, <<toks[p].k>> \o stack)
    ELSE IF toks[p].k \in CloseKinds
         THEN /\ stack # <<>>
              /\ (stack[1] = "LeftBrace") = (toks[p].k = "RightBrace")
              /\ Matched(toks, p + 1, Tail(stack))
    ELSE Matched(toks, p + 1, stack)

\* C9: whenever parse returns a value, each `{` token is paired with a `}`
\* and each `[` with a `]`.
C9_BracketsMatchedByKind ==
    (Done /\ result.kind = "ok") => Matched(tokens, 1, <<>>)

---------------------------------------------------------------------------
(* C10 *)

NoQuoteIn(a, b) == \A q \in a..(b - 1) : At(json, q) # quote_sym

StringTokenInRange(t) ==
    /\ 1 <= t.i
    /\ t.i <= t.j
    /\ t.j < buf_len
    /\ At(json, t.i - 1) = quote_sym
    /\ At(json, t.j) = quote_sym
    /\ NoQuoteIn(t.i, t.j)
    /\ t.j + 1 <= i

StringTokensInRange ==
    \A p \in 1..Len(tokens) : tokens[p].k = "StringVal" => StringTokenInRange(tokens[p])

\* The slices parse_value and parse_dict_entry take for a String token.
SlicesInBounds ==
    \A p \in 1..Len(tokens) :
        tokens[p].k = "StringVal" =>
            Len(Slice(json, tokens[p].i, tokens[p].j)) = tokens[p].j - tokens[p].i

UnterminatedOnlyAtOpenQuote ==
    (Done /\ result = Err(UnterminatedString)) =>
        /\ At(json, i) = quote_sym
        /\ NoQuoteIn(i + 1, buf_len)
        /\ \A p \in 1..Len(tokens) : tokens[p].k = "StringVal" => tokens[p].j < i

\* A step that emits a String token leaves the cursor right after its
\* closing quote.
CursorAfterString ==
    (Len(tokens') = Len(tokens) + 1 /\ tokens'[Len(tokens')].k = "StringVal")
        => i' = tokens'[Len(tokens')].j + 1

\* A step from an opening quote that no quote follows emits nothing and
\* ends the parse with UnterminatedString.
OpenQuoteFails ==
    (IsStringStart /\ NoQuoteIn(i + 1, buf_len))
        => (tokens' = tokens /\ pc' = "done" /\ result' = Err(UnterminatedString))

\* C10: every emitted String(start, end) has 1 <= start <= end < buffer
\* length, quotes at start - 1 and at end and none in between, and the
\* cursor is end + 1 once it is emitted; the parser's slices are in bounds;
\* an opening quote with no later quote gives UnterminatedString and no
\* String token.
C10_StringTokenRange ==
    /\ [](StringTokensInRange /\ SlicesInBounds /\ UnterminatedOnlyAtOpenQuote)
    /\ [][CursorAfterString /\ OpenQuoteFails]_vars

C10_Witness ==
    /\ pc = "lex"
    /\ tokens # <<>>
    /\ tokens[Len(tokens)].k = "StringVal"
    /\ tokens[Len(tokens)].i < tokens[Len(tokens)].j
    /\ i = tokens[Len(tokens)].j + 1
    /\ i < buf_len

====
